---- MODULE Spec2Model ----
(***************************************************************************)
(* A model of text_detectv2.py, a Streamlit page that runs a YOLO text     *)
(* detector over an uploaded image or an image fetched from a URL.         *)
(*                                                                         *)
(* Streamlit executes the whole script once per user interaction (a        *)
(* "run").  What survives between runs is the st.cache_resource entry of   *)
(* load_custom_model, the widget values (the uploaded file and the URL     *)
(* text) and the temporary directory.  A run is modelled as a sequence of  *)
(* steps, one per block of the script, with the answers of the outside     *)
(* world (the weights file, the HTTP server, the disk, the detector)       *)
(* chosen nondeterministically at the step that asks for them.             *)
(*                                                                         *)
(* The user can touch a widget at any moment, also while a run is under    *)
(* way (a GET or a prediction takes time).  Streamlit then records a rerun *)
(* request and the running script is ended at its next st.* call, which    *)
(* raises RerunException (a BaseException) instead of rendering; the page  *)
(* then reruns with the new widget values.  Each step of the model is the  *)
(* code between two such calls.                                            *)
(***************************************************************************)
EXTENDS Integers, Sequences, FiniteSets, TLC

VARIABLES
    cache,          \* st.cache_resource entry of load_custom_model: <<>> or <<[value, elements]>>
    loadHistory,    \* ghost: the value returned by each execution of load_custom_model's body
    loadAttempts,   \* ghost: how often load_custom_model's body was started
    files,          \* the temporary files that exist on disk
    widget_file,    \* st.file_uploader's value in the session: <<>> (None) or <<bytes>>
    widget_url,     \* st.text_input's value in the session
    pending,        \* a rerun is requested
    nextButton,     \* the requested rerun was asked for by a press of "Detect Text"
    pc,             \* where the current run is, or how it ended
    uploaded_file,  \* module global uploaded_file, as this run read it
    button,         \* what st.button("Detect Text") returns in this run
    model,          \* module global model
    source,         \* module global source: <<>> (None) or <<kind, payload>>
    source_type,    \* module global source_type
    response,       \* local response: <<>> while unassigned, else <<what requests.get answered>>
    tried,          \* ghost: this run attempted to acquire the image
    img,            \* module global img
    temp_path,      \* module global temp_path; NoPath while unassigned
    results,        \* module global results: <<>> while unassigned, else <<the list model.predict returned>>
    page,           \* the elements this run has rendered, in order
    gets,           \* ghost: requests.get calls of this run
    predicts,       \* ghost: model.predict calls of this run
    unlinkLog,      \* ghost: the outcome of each os.unlink call of this run
    pcT,            \* twin run (same inputs, other os.unlink outcomes): its position
    pageT,          \* twin run: the elements it has rendered
    filesT          \* twin run: the temporary files that exist

procVars == <<cache, loadHistory, loadAttempts>>
sessionVars == <<widget_file, widget_url, pending, nextButton>>
readVars == <<button, uploaded_file, source, source_type>>
ghostVars == <<gets, predicts, unlinkLog>>
twinVars == <<pcT, pageT, filesT>>
vars == <<procVars, sessionVars, readVars, ghostVars, twinVars, files, pc, model,
          response, tried, img, temp_path, results, page>>

(***************************************************************************)
(* Bounds of the model.                                                    *)
(***************************************************************************)
MaxFiles == 1       \* temporary files left on disk by earlier runs, beyond which no run is followed
MaxBoxes == 1       \* most boxes in one result set
MaxLoads == 2       \* executions of load_custom_model's body that are followed

(***************************************************************************)
(* Values.                                                                 *)
(***************************************************************************)
None == <<>>
Some(x) == <<x>>

\* File contents are byte strings.  "J" stands for the signature of an
\* encoded image; a buffer that starts with it decodes.
EmptyBytes == <<>>
JunkBytes == <<"x", "x">>
ImageBytes == <<"J", "x">>
ByteStrings == {EmptyBytes, JunkBytes, ImageBytes}

\* Texts of the URL field: empty, blank, a URL, a URL with blanks around it.
\* "u" stands for the characters of a URL.
UrlTexts == {<<>>, <<" ">>, <<"u">>, <<" ", "u", " ">>}

NoPath == 0
\* The names tempfile can give: one more than the files earlier runs have
\* left, so that a run always finds a name not in use.
TempNames == 1..(MaxFiles + 1)
\* The name NamedTemporaryFile picks, one that no existing file has (names
\* are numbered in the order they are handed out).
FreshName(fs) == CHOOSE n \in TempNames \ fs : \A m \in TempNames \ fs : n <= m

\* A rendered element: <<kind, text, number>>.
El(kind, text) == <<kind, text, 0>>
ErrModelMissing == El("error", "Model file not found at")
ErrModelLoad == El("error", "Model loading failed")
ErrUrlDecode == El("error", "Failed to decode image from URL")
ErrUrlLoad == El("error", "Failed to load image from URL")
ErrProcessing == El("error", "Processing error")
WarnNoText == El("warning", "No text detected in the image")
WarnNotLoaded == El("warning", "Model not loaded - check your best_roboflow.pt file")
InfoProvide == El("info", "Please provide an image (upload or enter URL)")
PanelLoaded == El("panel", "Model loaded successfully")
PanelNotLoaded == El("panel", "Model not loaded")

Range(s) == {s[i] : i \in 1..Len(s)}
Kinds(p, k) == {i \in 1..Len(p) : p[i][1] = k}

(***************************************************************************)
(* Python semantics used by the script.                                    *)
(***************************************************************************)
\* An exception in flight is "none", "Exception" (any subclass of Exception:
\* requests' errors, cv2.error, OSError, ...), "StopException" (raised by
\* st.stop()) or "RerunException" (raised by any st.* call once a rerun is
\* requested); Streamlit derives the last two from BaseException.
\* Mutant: a bare `except:`, which also catches StopException.
BareExceptCatches(exc) == exc # "none"
\* `except Exception as e:` (lines 73, 122, 170)
ExceptExceptionCatches(exc) == exc = "Exception"

\* str.strip(): leading and trailing whitespace removed (lines 101, 102)
RECURSIVE lstrip(_)
lstrip(s) == IF s # <<>> /\ Head(s) = " " THEN lstrip(Tail(s)) ELSE s
RECURSIVE rstrip(_)
rstrip(s) == IF s # <<>> /\ s[Len(s)] = " " THEN rstrip(SubSeq(s, 1, Len(s) - 1)) ELSE s
strip(s) == rstrip(lstrip(s))

(***************************************************************************)
(* Library calls, by what the script relies on.                            *)
(***************************************************************************)
\* cv2.imdecode: an empty buffer raises cv2.error, a buffer that is no image
\* gives None, an encoded image gives the pixel array.
imdecode(buf) ==
    IF buf = EmptyBytes THEN [exc |-> "Exception", img |-> "None"]
    ELSE [exc |-> "none", img |-> IF Head(buf) = "J" THEN "image" ELSE "None"]

\* Mutant: the conversion lets None through.
cvtColorAcceptsNone(i) == "none"
\* cv2.cvtColor(img, cv2.COLOR_BGR2RGB): raises cv2.error on None (lines 112, 121)
cvtColor(i) == IF i = "None" THEN "Exception" ELSE "none"

\* response.raise_for_status() (line 116): HTTPError for a client error
\* (400-499) or a server error (500-599), nothing for any other status.
raise_for_status(status) ==
    IF 400 <= status /\ status < 600 THEN "Exception" ELSE "none"

\* What requests.get can answer: an exception, or a response.  600 stands
\* for the codes outside 100-599 that some servers send.
Responses ==
    {[exc |-> e, status |-> 0, content |-> EmptyBytes] : e \in {"Timeout", "ConnectionError"}}
    \cup {[exc |-> "none", status |-> c, content |-> JunkBytes] : c \in {404, 500}}
    \cup {[exc |-> "none", status |-> 600, content |-> ImageBytes]}
    \cup {[exc |-> "none", status |-> 200, content |-> b] : b \in ByteStrings}

\* An st.* call that renders elements els: with a rerun requested it raises
\* RerunException and renders nothing.
St(pend, els) ==
    IF pend THEN [out |-> <<>>, exc |-> "RerunException"]
    ELSE [out |-> els, exc |-> "none"]

\* What model.predict can answer: an exception, or a list of result sets, each
\* given by its number of boxes.  ultralytics returns one result set per image
\* (a list of length 1 here), also when it finds no box; the script handles the
\* empty list, so the empty list is among the answers.
ResultLists == {<<>>} \cup {<<n>> : n \in 0..MaxBoxes}
PredictOutcomes ==
    {[exc |-> "Exception", results |-> <<>>]}
    \cup {[exc |-> "none", results |-> r] : r \in ResultLists}

\* os.unlink(path): removes the file, or raises (the file is gone, or the
\* operating system refuses).
os_unlink(fs, path, ok) ==
    IF path \in fs /\ ok THEN [files |-> fs \ {path}, exc |-> "none"]
    ELSE [files |-> fs, exc |-> "Exception"]

(***************************************************************************)
(* The script's blocks as functions of their inputs.                       *)
(***************************************************************************)
\* load_custom_model's body (lines 67-75): the value returned and the
\* elements rendered, given whether the weights file exists and YOLO loads.
load_custom_model(exists, loads) ==
    IF ~exists THEN [value |-> "None", elements |-> <<ErrModelMissing>>]
    ELSE IF loads THEN [value |-> "YOLO", elements |-> <<>>]
    ELSE [value |-> "None", elements |-> <<ErrModelLoad>>]

\* Mutant: the decorator is missing, the body runs in every run.
NeverCached(c) == FALSE
\* @st.cache_resource (line 65): the body runs only when nothing is cached.
CacheHit(c) == c # <<>>

\* The call load_custom_model() of line 77 through st.cache_resource.  A hit
\* gives the cached value and replays the elements the body rendered.  A miss
\* runs the body; the value it returns is cached.  The st.error of lines 70
\* and 74 raises RerunException when a rerun is requested: the body then
\* returns nothing and nothing is cached.
LoadCall(c, exists, loads, pend) ==
    IF CacheHit(c)
    THEN LET s == St(pend, c[1].elements)
         IN [cache |-> c, value |-> c[1].value, out |-> s.out,
             exc |-> IF c[1].elements = <<>> THEN "none" ELSE s.exc,
             started |-> FALSE, returned |-> FALSE]
    ELSE LET r == load_custom_model(exists, loads)
             s == St(pend, r.elements)
         IN IF r.elements # <<>> /\ s.exc # "none"
            THEN [cache |-> c, value |-> "unset", out |-> <<>>, exc |-> s.exc,
                  started |-> TRUE, returned |-> FALSE]
            ELSE [cache |-> <<r>>, value |-> r.value, out |-> r.elements, exc |-> "none",
                  started |-> TRUE, returned |-> TRUE]

\* Mutant: the two tests in the other order, the URL taking priority.
UrlFirst(file, url) ==
    IF url # <<>> /\ strip(url) # <<>> THEN <<"url", strip(url)>>
    ELSE IF file # None THEN <<"upload", file[1]>>
    ELSE None
\* Source selection (lines 96-103).
SelectSource(file, url) ==
    IF file # None THEN <<"upload", file[1]>>
    ELSE IF url # <<>> /\ strip(url) # <<>> THEN <<"url", strip(url)>>
    ELSE None

SourceType(src) ==
    IF src = None THEN "None"
    ELSE IF src[1] = "upload" THEN "Uploaded Image" ELSE "URL Image"

\* Mutants: the condition without `and model`, and without the button.
EnteredWithoutModel(b, src, m) == b /\ src # None
EnteredWithoutButton(b, src, m) == src # None /\ m = "YOLO"
\* `st.button("Detect Text") and source and model` (line 105)
PipelineEntered(b, src, m) == b /\ src # None /\ m = "YOLO"

\* Upload branch (lines 110-112).
AcquireUpload(bytes) ==
    LET d == imdecode(bytes)
    IN IF d.exc # "none" THEN [exc |-> d.exc, img |-> "unset", out |-> <<>>]
       ELSE [exc |-> cvtColor(d.img), img |-> d.img, out |-> <<>>]

\* st.error(...) followed by st.stop() (lines 119-120, 123-124).
ErrorAndStop(pend, el) ==
    LET s == St(pend, <<el>>)
    IN [out |-> s.out, exc |-> IF s.exc # "none" THEN s.exc ELSE "StopException"]

\* The body of the inner try once requests.get has answered (lines 115-121).
UrlTryBody(resp, pend) ==
    IF resp.exc # "none" THEN [exc |-> "Exception", img |-> "unset", out |-> <<>>]
    ELSE IF raise_for_status(resp.status) # "none"
    THEN [exc |-> "Exception", img |-> "unset", out |-> <<>>]
    ELSE LET d == imdecode(resp.content)
         IN IF d.exc # "none" THEN [exc |-> d.exc, img |-> "unset", out |-> <<>>]
            ELSE IF d.img = "None"
            THEN [exc |-> ErrorAndStop(pend, ErrUrlDecode).exc, img |-> d.img,
                  out |-> ErrorAndStop(pend, ErrUrlDecode).out]
            ELSE [exc |-> cvtColor(d.img), img |-> d.img, out |-> <<>>]

\* URL branch: the inner try with its handler (lines 114-124).
AcquireUrl(resp, pend) ==
    LET t == UrlTryBody(resp, pend)
    IN IF ExceptExceptionCatches(t.exc)
       THEN [exc |-> ErrorAndStop(pend, ErrUrlLoad).exc, img |-> t.img,
             out |-> t.out \o ErrorAndStop(pend, ErrUrlLoad).out]
       ELSE t

\* How a run ends when exception exc leaves the script: Streamlit ends it
\* silently for st.stop(), starts the requested rerun for RerunException, and
\* reports any other exception as uncaught.
Leaves(exc) ==
    IF exc = "none" THEN "done"
    ELSE IF exc = "StopException" THEN "stopped"
    ELSE IF exc = "RerunException" THEN "aborted"
    ELSE "crashed"

\* Where the run goes when a block outside the outer try ends with exc.
After(exc, next) == IF exc = "none" THEN next ELSE Leaves(exc)

\* Where the run goes when a block inside the outer try (lines 107-176) ends
\* with exception exc: on, into the outer handler, or out of the script.
AfterBlock(exc, next) ==
    IF exc = "none" THEN next
    ELSE IF ExceptExceptionCatches(exc) THEN "except"
    ELSE Leaves(exc)

\* Mutant: the unlink outside a try, its exception propagating.
UnlinkPropagates(fs, path, ok) ==
    LET r == os_unlink(fs, path, ok)
    IN [files |-> r.files, exc |-> r.exc, removed |-> r.exc = "none"]
\* try: os.unlink(temp_path) / except: pass (lines 140-143, 173-176)
TryUnlink(fs, path, ok) ==
    LET r == os_unlink(fs, path, ok)
    IN [files |-> r.files, exc |-> "none", removed |-> r.exc = "none"]

\* Mutant: the handler does not clean up.
NeverInLocals(tp) == FALSE
\* 'temp_path' in locals() (line 172)
TempPathInLocals(tp) == tp # NoPath

\* What lines 147-166 render when nothing raises.
Rendered(res, stype) ==
    << <<"original", stype, 0>>,
       <<"detected", "Detected Text", 0>>,
       <<"details", stype, res[1]>> >>

\* How many of them page p holds.
Shown(p) == Cardinality({i \in 1..Len(p) : p[i][1] \in {"original", "detected", "details"}})

\* The test of line 146 with what follows it up to the first st.* call:
\* plot() and cvtColor (lines 147-148), which may raise, or the warning of
\* line 168.
Present(res, plotted, pend) ==
    IF Len(res) > 0
    THEN [out |-> <<>>, exc |-> IF plotted THEN "none" ELSE "Exception", next |-> "render"]
    ELSE [out |-> St(pend, <<WarnNoText>>).out, exc |-> St(pend, <<WarnNoText>>).exc,
          next |-> "panel"]

\* The next element of lines 151-166 on page p: rendered, or an exception.
Render(p, res, stype, raises, pend) ==
    LET s == St(pend, <<Rendered(res, stype)[Shown(p) + 1]>>)
    IN IF s.exc # "none" THEN [out |-> <<>>, exc |-> s.exc, next |-> "render"]
       ELSE IF raises THEN [out |-> <<>>, exc |-> "Exception", next |-> "render"]
       ELSE [out |-> s.out, exc |-> "none",
             next |-> IF Shown(p) + 1 = Len(Rendered(res, stype)) THEN "panel"
                      ELSE "render"]

\* The cleanup of the outer handler (lines 172-176).
Handler(fs, tp, ok) ==
    IF TempPathInLocals(tp)
    THEN LET u == TryUnlink(fs, tp, ok)
         IN [files |-> u.files, exc |-> u.exc, log |-> <<u.removed>>]
    ELSE [files |-> fs, exc |-> "none", log |-> <<>>]

\* Model Information (lines 183-189).
Panel(m) == IF m = "YOLO" THEN PanelLoaded ELSE PanelNotLoaded


(***************************************************************************)
(* The state machine.                                                      *)
(***************************************************************************)
\* The run's globals before the script has assigned them; nothing rendered.
FreshRun ==
    /\ model' = "unset"
    /\ uploaded_file' = None
    /\ source' = None
    /\ source_type' = "None"
    /\ response' = None
    /\ tried' = FALSE
    /\ img' = "unset"
    /\ temp_path' = NoPath
    /\ results' = None
    /\ page' = <<>>
    /\ gets' = 0
    /\ predicts' = 0
    /\ unlinkLog' = <<>>

\* The process has started and the first run of the page begins: nothing is
\* cached, no file is uploaded, the URL field is empty (value="", line 89).
Init ==
    /\ cache = <<>>
    /\ loadHistory = <<>>
    /\ loadAttempts = 0
    /\ files = {}
    /\ widget_file = None
    /\ widget_url = <<>>
    /\ pending = FALSE
    /\ nextButton = FALSE
    /\ pc = "top"
    /\ button = FALSE
    /\ model = "unset"
    /\ uploaded_file = None
    /\ source = None
    /\ source_type = "None"
    /\ response = None
    /\ tried = FALSE
    /\ img = "unset"
    /\ temp_path = NoPath
    /\ results = None
    /\ page = <<>>
    /\ gets = 0
    /\ predicts = 0
    /\ unlinkLog = <<>>
    /\ pcT = "top"
    /\ pageT = <<>>
    /\ filesT = {}

\* The run is over.
Ended == pc \in {"done", "stopped", "aborted", "crashed"}

\* A widget event: the session's widget values change and a rerun is
\* requested, whether a run is under way or not.  Requests not yet served are
\* merged; a button press among them is kept.
Event(pressed) ==
    /\ pending' = TRUE
    /\ nextButton' = (nextButton \/ pressed)
    /\ UNCHANGED <<procVars, readVars, ghostVars, twinVars, files, pc, model, response,
                   tried, img, temp_path, results, page>>

\* The user picks a file in st.file_uploader (line 83).
UploadFile ==
    \E b \in ByteStrings :
        /\ widget_file # Some(b)
        /\ widget_file' = Some(b)
        /\ UNCHANGED widget_url
        /\ Event(FALSE)

\* The user removes the uploaded file.
RemoveFile ==
    /\ widget_file # None
    /\ widget_file' = None
    /\ UNCHANGED widget_url
    /\ Event(FALSE)

\* The user edits the URL field (line 87).
EnterUrl ==
    \E u \in UrlTexts :
        /\ u # widget_url
        /\ widget_url' = u
        /\ UNCHANGED widget_file
        /\ Event(FALSE)

\* The user presses "Detect Text" (line 105).
PressDetect ==
    /\ UNCHANGED <<widget_file, widget_url>>
    /\ Event(TRUE)

\* The requested rerun starts once the running script has ended: the
\* script's globals are fresh, st.button reports True if the request came
\* from a press.  The twin run starts from the same disk.  Runs are followed
\* while earlier runs have left at most MaxFiles files.
Rerun ==
    /\ Ended
    /\ pending
    /\ Cardinality(files) <= MaxFiles
    /\ pending' = FALSE
    /\ nextButton' = FALSE
    /\ button' = nextButton
    /\ pc' = "top"
    /\ FreshRun
    /\ pcT' = "top"
    /\ pageT' = <<>>
    /\ filesT' = files
    /\ UNCHANGED <<procVars, widget_file, widget_url, files>>

\* Up to the first os.unlink the twin run is the run itself.
TwinFollows ==
    /\ pcT' = pc'
    /\ pageT' = page'
    /\ filesT' = files'

\* From the first os.unlink on the twin run takes the run's step with its
\* own state, as long as it is at the same place.
TwinStep(nextT, outT) ==
    /\ pcT' = IF pcT = pc THEN nextT ELSE pcT
    /\ pageT' = IF pcT = pc THEN pageT \o outT ELSE pageT

\* Lines 10-62: st.set_page_config, st.markdown, components.html.
ConfigurePage ==
    /\ pc = "top"
    /\ pc' = After(St(pending, <<>>).exc, "load")
    /\ UNCHANGED <<procVars, sessionVars, readVars, ghostVars, files, model, response,
                   tried, img, temp_path, results, page>>
    /\ TwinFollows

\* model = load_custom_model() (lines 65-77).
LoadModel ==
    /\ pc = "load"
    /\ \E exists \in BOOLEAN, loads \in BOOLEAN :
          LET l == LoadCall(cache, exists, loads, pending)
          IN /\ cache' = l.cache
             /\ loadAttempts' = IF l.started /\ loadAttempts < MaxLoads
                                THEN loadAttempts + 1 ELSE loadAttempts
             /\ loadHistory' = IF l.returned /\ Len(loadHistory) < MaxLoads
                               THEN Append(loadHistory, l.value) ELSE loadHistory
             /\ model' = IF l.exc = "none" THEN l.value ELSE model
             /\ page' = page \o l.out
             /\ pc' = After(l.exc, "title")
    /\ UNCHANGED <<sessionVars, readVars, ghostVars, files, response, tried, img,
                   temp_path, results>>
    /\ TwinFollows

\* Line 80: st.title.
Title ==
    /\ pc = "title"
    /\ pc' = After(St(pending, <<>>).exc, "uploader")
    /\ UNCHANGED <<procVars, sessionVars, readVars, ghostVars, files, model, response,
                   tried, img, temp_path, results, page>>
    /\ TwinFollows

\* Line 83: uploaded_file = st.file_uploader(...).
FileUploader ==
    /\ pc = "uploader"
    /\ IF St(pending, <<>>).exc # "none"
       THEN /\ pc' = Leaves(St(pending, <<>>).exc)
            /\ UNCHANGED uploaded_file
       ELSE /\ pc' = "url"
            /\ uploaded_file' = widget_file
    /\ UNCHANGED <<procVars, sessionVars, button, source, source_type, ghostVars, files,
                   model, response, tried, img, temp_path, results, page>>
    /\ TwinFollows

\* Lines 87-103: image_url = st.text_input(...), then the source selection
\* over uploaded_file and image_url; image_url is used here only.
DetermineSource ==
    /\ pc = "url"
    /\ IF St(pending, <<>>).exc # "none"
       THEN /\ pc' = Leaves(St(pending, <<>>).exc)
            /\ UNCHANGED <<source, source_type>>
       ELSE /\ pc' = "guard"
            /\ source' = SelectSource(uploaded_file, widget_url)
            /\ source_type' = SourceType(SelectSource(uploaded_file, widget_url))
    /\ UNCHANGED <<procVars, sessionVars, button, uploaded_file, ghostVars, files, model,
                   response, tried, img, temp_path, results, page>>
    /\ TwinFollows

\* The if / elif / elif of lines 105, 177-180; st.button is the st.* call.
Guard ==
    /\ pc = "guard"
    /\ IF St(pending, <<>>).exc # "none"
       THEN pc' = Leaves(St(pending, <<>>).exc) /\ page' = page
       ELSE IF PipelineEntered(button, source, model)
       THEN pc' = "acquire" /\ page' = page
       ELSE /\ pc' = "panel"
            /\ page' = IF model # "YOLO" THEN Append(page, WarnNotLoaded)
                       ELSE IF source = None THEN Append(page, InfoProvide)
                       ELSE page
    /\ UNCHANGED <<procVars, sessionVars, readVars, ghostVars, files, model, response,
                   tried, img, temp_path, results>>
    /\ TwinFollows

\* Lines 109-112: the uploaded bytes are read and decoded.
AcquireFromUpload ==
    /\ pc = "acquire"
    /\ source[1] = "upload"
    /\ LET a == AcquireUpload(source[2])
       IN /\ img' = a.img
          /\ page' = page \o a.out
          /\ pc' = AfterBlock(a.exc, "tmp")
    /\ tried' = TRUE
    /\ UNCHANGED <<procVars, sessionVars, readVars, ghostVars, files, model, response,
                   temp_path, results>>
    /\ TwinFollows

\* Line 115: the one HTTP GET, which returns or raises within its timeout.
HttpGet ==
    /\ pc = "acquire"
    /\ source[1] # "upload"
    /\ \E resp \in Responses : response' = Some(resp)
    /\ gets' = gets + 1
    /\ tried' = TRUE
    /\ pc' = "fetched"
    /\ UNCHANGED <<procVars, sessionVars, readVars, predicts, unlinkLog, files, model,
                   img, temp_path, results, page>>
    /\ TwinFollows

\* Lines 116-124: the status is checked and the body decoded; a failure is
\* shown and the script stopped.
DecodeUrl ==
    /\ pc = "fetched"
    /\ LET a == AcquireUrl(response[1], pending)
       IN /\ img' = a.img
          /\ page' = page \o a.out
          /\ pc' = AfterBlock(a.exc, "tmp")
    /\ UNCHANGED <<procVars, sessionVars, readVars, ghostVars, files, model, response,
                   tried, temp_path, results>>
    /\ TwinFollows

\* Lines 127-129: NamedTemporaryFile(delete=False) creates a file under a
\* name not in use, or raises (the disk is full, the directory is not
\* writable); cv2.imwrite then writes it, or raises.
CreateTemp ==
    /\ pc = "tmp"
    /\ \E created \in BOOLEAN, written \in BOOLEAN :
          IF ~created
          THEN /\ pc' = AfterBlock("Exception", "predict")
               /\ UNCHANGED <<files, temp_path>>
          ELSE /\ files' = files \cup {FreshName(files)}
               /\ temp_path' = FreshName(files)
               /\ pc' = AfterBlock(IF written THEN "none" ELSE "Exception", "predict")
    /\ UNCHANGED <<procVars, sessionVars, readVars, ghostVars, model, response, tried,
                   img, results, page>>
    /\ TwinFollows

\* Lines 132-137: one call of model.predict.
Predict ==
    /\ pc = "predict"
    /\ \E p \in PredictOutcomes :
          /\ results' = IF p.exc = "none" THEN Some(p.results) ELSE results
          /\ pc' = AfterBlock(p.exc, "unlink")
    /\ predicts' = predicts + 1
    /\ UNCHANGED <<procVars, sessionVars, readVars, gets, unlinkLog, files, model,
                   response, tried, img, temp_path, page>>
    /\ TwinFollows

\* Lines 140-143: the temporary file is deleted, a failure is passed over.
\* The twin run gets its own answer from the operating system.
UnlinkTemp ==
    /\ pc = "unlink"
    /\ \E ok \in BOOLEAN, okT \in BOOLEAN :
          LET u == TryUnlink(files, temp_path, ok)
              uT == TryUnlink(filesT, temp_path, okT)
          IN /\ files' = u.files
             /\ unlinkLog' = Append(unlinkLog, u.removed)
             /\ pc' = AfterBlock(u.exc, "present")
             /\ filesT' = uT.files
             /\ pcT' = AfterBlock(uT.exc, "present")
    /\ UNCHANGED <<procVars, sessionVars, readVars, gets, predicts, model, response,
                   tried, img, temp_path, results, page, pageT>>

\* Lines 146-148 and 167-168: the test on the result list, then plot() or
\* the "No text detected" warning.
PresentResults ==
    /\ pc = "present"
    /\ \E plotted \in BOOLEAN :
          LET r == Present(results[1], plotted, pending)
          IN /\ page' = page \o r.out
             /\ pc' = AfterBlock(r.exc, r.next)
             /\ TwinStep(AfterBlock(r.exc, r.next), r.out)
    /\ UNCHANGED <<procVars, sessionVars, readVars, ghostVars, files, model, response,
                   tried, img, temp_path, results, filesT>>

\* Lines 151-166: the original image, the annotated image, the details.
RenderElement ==
    /\ pc = "render"
    /\ \E raises \in BOOLEAN :
          LET r == Render(page, results[1], source_type, raises, pending)
              rT == Render(pageT, results[1], source_type, raises, pending)
          IN /\ page' = page \o r.out
             /\ pc' = AfterBlock(r.exc, r.next)
             /\ TwinStep(AfterBlock(rT.exc, rT.next), rT.out)
    /\ UNCHANGED <<procVars, sessionVars, readVars, ghostVars, files, model, response,
                   tried, img, temp_path, results, filesT>>

\* Line 171: the outer handler shows the error.
ShowProcessingError ==
    /\ pc = "except"
    /\ LET s == St(pending, <<ErrProcessing>>)
       IN /\ page' = page \o s.out
          /\ pc' = After(s.exc, "cleanup")
          /\ TwinStep(After(s.exc, "cleanup"), s.out)
    /\ UNCHANGED <<procVars, sessionVars, readVars, ghostVars, files, model, response,
                   tried, img, temp_path, results, filesT>>

\* Lines 172-176: the temporary file, if this run named one, is deleted, a
\* failure passed over.
HandlerCleanup ==
    /\ pc = "cleanup"
    /\ \E ok \in BOOLEAN, okT \in BOOLEAN :
          LET h == Handler(files, temp_path, ok)
              hT == Handler(filesT, temp_path, okT)
          IN /\ files' = h.files
             /\ unlinkLog' = unlinkLog \o h.log
             /\ pc' = After(h.exc, "panel")
             /\ filesT' = IF pcT = pc THEN hT.files ELSE filesT
             /\ TwinStep(After(hT.exc, "panel"), <<>>)
    /\ UNCHANGED <<procVars, sessionVars, readVars, gets, predicts, model, response,
                   tried, img, temp_path, results, page>>

\* Lines 183-189: the Model Information expander; the run ends.
ModelInformation ==
    /\ pc = "panel"
    /\ LET s == St(pending, <<Panel(model)>>)
       IN /\ page' = page \o s.out
          /\ pc' = After(s.exc, "done")
          /\ TwinStep(After(s.exc, "done"), s.out)
    /\ UNCHANGED <<procVars, sessionVars, readVars, ghostVars, files, model, response,
                   tried, img, temp_path, results, filesT>>

Next ==
    \/ UploadFile
    \/ RemoveFile
    \/ EnterUrl
    \/ PressDetect
    \/ Rerun
    \/ ConfigurePage
    \/ LoadModel
    \/ Title
    \/ FileUploader
    \/ DetermineSource
    \/ Guard
    \/ AcquireFromUpload
    \/ HttpGet
    \/ DecodeUrl
    \/ CreateTemp
    \/ Predict
    \/ UnlinkTemp
    \/ PresentResults
    \/ RenderElement
    \/ ShowProcessingError
    \/ HandlerCleanup
    \/ ModelInformation

Spec == Init /\ [][Next]_vars

(***************************************************************************)
(* Properties.                                                             *)
(***************************************************************************)
\* The run reached the pipeline's condition with all three conjuncts true.
Pressed == button /\ source # None /\ model = "YOLO"
\* Positions inside the pipeline of lines 106-176.
InPipeline ==
    pc \in {"acquire", "fetched", "tmp", "predict", "unlink", "present", "render",
            "except", "cleanup"}
\* The run has evaluated the source selection.
PastSelection == source_type # "None" \/ pc \in {"guard", "panel", "done"}
\* The run ended and no widget event cut it short.
Completed == pc \in {"done", "stopped"}
Errors(p) == Kinds(p, "error")
ResultDisplayed(p) == Kinds(p, "details") # {}
PanelShown(p) == Kinds(p, "panel") # {}
UnlinkSucceeded == \E i \in 1..Len(unlinkLog) : unlinkLog[i]

\* C1: with an uploaded file present the selected source is the upload,
\* whatever the URL field holds; the run issues no HTTP GET and the image it
\* works on is the decoded upload.
C1_UploadWins ==
    (uploaded_file # None /\ PastSelection) =>
        /\ source = <<"upload", uploaded_file[1]>>
        /\ source_type = "Uploaded Image"
        /\ gets = 0
        /\ (img # "unset" => img = imdecode(uploaded_file[1]).img)

\* C1 witness: a result was displayed from an uploaded image while the URL
\* field held a URL (no event since the run read the widgets).
C1_Witness ==
    /\ pc = "done"
    /\ ~pending
    /\ button
    /\ uploaded_file = Some(ImageBytes)
    /\ strip(widget_url) # <<>>
    /\ ResultDisplayed(page)
    /\ gets = 0

\* Acquisition was attempted in this run and gave no image.
AcquisitionFailed ==
    /\ tried
    /\ pc \notin {"acquire", "fetched"}
    /\ img # "image"

\* The GET of this run has answered and lines 116-124 have dealt with it.
Fetched == response # None /\ pc # "fetched"
\* The GET raised (timeout, connection error) or answered with a status that
\* is not a success (2xx).
NonSuccess(resp) == resp.exc # "none" \/ resp.status \notin 200..299
\* The GET raised or answered with a client or server error status.
HttpError(resp) == resp.exc # "none" \/ resp.status \in 400..599

\* C2, as claimed: when acquisition fails (no image decoded, a non-success
\* status, a timeout or a connection error) the run creates no temporary file,
\* never calls model.predict, and has shown an error message when it ends.
C2_Original ==
    (AcquisitionFailed \/ (Fetched /\ NonSuccess(response[1]))) =>
        /\ temp_path = NoPath
        /\ predicts = 0
        /\ (Ended => Errors(page) # {})

\* C2, amended: when acquisition fails (no image decoded, a 4xx or 5xx
\* status, a timeout or a connection error) the run has no image, creates no
\* temporary file, never calls model.predict and goes nowhere but to an error;
\* it has shown an error message when it ends, unless a widget event cut it
\* short.
C2_AcquisitionFailureStops ==
    (AcquisitionFailed \/ (Fetched /\ HttpError(response[1]))) =>
        /\ img # "image"
        /\ temp_path = NoPath
        /\ predicts = 0
        /\ pc \in {"except", "cleanup", "panel", "done", "stopped", "aborted"}
        /\ (Completed => Errors(page) # {})

\* C2 witness: a run over a URL whose GET was answered with 404 has ended on
\* its error message.
C2_Witness ==
    /\ pc = "stopped"
    /\ AcquisitionFailed
    /\ source[1] = "url"
    /\ gets = 1
    /\ response[1].status = 404
    /\ page = <<ErrUrlLoad>>

\* model.predict returned and no result set holds a box.
ZeroDetections ==
    /\ results # None
    /\ \A i \in 1..Len(results[1]) : results[1][i] = 0

\* C3, as claimed: a run in which the model returned zero detections, which
\* no widget event cut short and in which no later step failed, ends in the
\* "No text detected" state, with no result panels.
C3_ZeroDetectionsInformational ==
    (pc = "done" /\ ZeroDetections /\ Errors(page) = {}) =>
        /\ WarnNoText \in Range(page)
        /\ ~ResultDisplayed(page)

\* The weights failed to load: None is what load_custom_model has returned.
ModelUnavailable == cache # <<>> /\ cache[1].value = "None"

\* C4, as claimed: once the load has yielded no handle, every run that ends
\* has shown the "Model not loaded" warning and the panel reading "Model not
\* loaded".
C4_Original ==
    (ModelUnavailable /\ Ended) =>
        /\ WarnNotLoaded \in Range(page)
        /\ PanelNotLoaded \in Range(page)

\* C4, amended: once the load has yielded no handle, no run enters the
\* pipeline (no GET, no decode, no temporary file, no predict, no exception
\* leaving the script), a run past the load has model = None, and every run
\* that no widget event cuts short ends having shown the "Model not loaded"
\* warning and, last, the panel reading "Model not loaded".
C4_ModelNotLoaded ==
    ModelUnavailable =>
        /\ model \in {"unset", "None"}
        /\ (pc \in {"title", "uploader", "url", "guard", "panel", "done"} => model = "None")
        /\ ~InPipeline
        /\ pc \notin {"crashed", "stopped"}
        /\ gets = 0 /\ predicts = 0 /\ temp_path = NoPath /\ img = "unset" /\ ~tried
        /\ (pc = "done" =>
              /\ WarnNotLoaded \in Range(page)
              /\ page[Len(page)] = PanelNotLoaded)

\* C4 witness: "Detect Text" was pressed with a source present after a failed
\* load, and the run has ended.
C4_Witness ==
    /\ ModelUnavailable
    /\ pc = "done"
    /\ button
    /\ source # None
    /\ page[Len(page)] = PanelNotLoaded

\* C5, as claimed, for the runs no widget event cuts short: every run that
\* has ended has rendered the Model Information panel.
C5_PanelAlwaysRendered ==
    Completed => PanelShown(page)

\* C6, as claimed: the body of load_custom_model is started at most once.
C6_Original ==
    loadAttempts <= 1

\* C6, amended: the body of load_custom_model returns at most once; what it
\* returned is what the cache holds and what every run's model is.
C6_LoadOnce ==
    /\ Len(loadHistory) <= 1
    /\ (cache # <<>> => Len(loadHistory) = 1 /\ cache[1].value = loadHistory[1])
    /\ (model # "unset" => Len(loadHistory) = 1 /\ model = loadHistory[1])

\* C6 witness: after a failed load a later run, started by the button, has
\* ended without another load.
C6_Witness ==
    /\ pc = "done"
    /\ button
    /\ loadHistory = <<"None">>
    /\ loadAttempts = 1
    /\ model = "None"

\* C7, as claimed: a run that created a temporary file has attempted its
\* deletion by the time it ends, and the file exists afterwards only if no
\* deletion succeeded.
C7_TempFileScoped ==
    (Ended /\ temp_path # NoPath) =>
        /\ Len(unlinkLog) >= 1
        /\ (temp_path \in files <=> ~UnlinkSucceeded)

\* C8, as claimed: a run that entered the pipeline (it went as far as
\* acquiring the image) ends with the result displayed, or the "No text
\* detected" warning, or one error message, exactly one of the three.
C8_Original ==
    (Ended /\ Pressed /\ tried) =>
        \/ ResultDisplayed(page) /\ WarnNoText \notin Range(page) /\ Errors(page) = {}
        \/ ~ResultDisplayed(page) /\ WarnNoText \in Range(page) /\ Errors(page) = {}
        \/ ~ResultDisplayed(page) /\ WarnNoText \notin Range(page)
             /\ Cardinality(Errors(page)) = 1

\* C8, amended: no exception leaves the script uncaught, and a run that
\* entered the pipeline and that no widget event cut short ends with the result
\* displayed, or the "No text detected" warning, or one error message, exactly
\* one of the three.
C8_OneOutcome ==
    /\ pc # "crashed"
    /\ (Completed /\ Pressed) =>
          \/ ResultDisplayed(page) /\ WarnNoText \notin Range(page) /\ Errors(page) = {}
          \/ ~ResultDisplayed(page) /\ WarnNoText \in Range(page) /\ Errors(page) = {}
          \/ ~ResultDisplayed(page) /\ WarnNoText \notin Range(page)
               /\ Cardinality(Errors(page)) = 1

\* C8 witness: the body fetched from the URL did not decode; the run ended on
\* that one message.
C8_Witness ==
    /\ pc = "stopped"
    /\ Pressed
    /\ page = <<ErrUrlDecode>>

\* C9: a GET, a predict call or any step of the pipeline happens only in a run
\* where the button was pressed, a source is selected and the model is loaded;
\* a run makes at most one GET and at most one predict call.
C9_OnlyOnPress ==
    /\ gets <= 1
    /\ predicts <= 1
    /\ (gets > 0 \/ predicts > 0 \/ InPipeline \/ tried \/ temp_path # NoPath
          \/ img # "unset" \/ results # None) =>
          (button /\ source # None /\ model = "YOLO")

\* C9 witness: a pressed run over a URL made its one GET and its one predict.
C9_Witness ==
    /\ pc = "done"
    /\ button
    /\ gets = 1
    /\ predicts = 1

\* C10: a run and its twin, which gets other answers to os.unlink, are at the
\* same place with the same elements rendered, no exception leaves the script
\* uncaught, and their disks differ at most in this run's temporary file, which
\* exists only if no deletion succeeded.
C10_UnlinkFailureSwallowed ==
    /\ pcT = pc
    /\ pageT = page
    /\ pc # "crashed"
    /\ files \ {temp_path} = filesT \ {temp_path}
    /\ (temp_path # NoPath /\ temp_path \in files) => ~UnlinkSucceeded

\* C10 witness: the result is displayed, the deletion failed in the run and
\* succeeded in its twin.
C10_Witness ==
    /\ pc = "done"
    /\ ResultDisplayed(page)
    /\ temp_path \in files
    /\ temp_path \notin filesT

====
